---- MODULE Spec2Model ----
(***************************************************************************)
(* Model of company_research_agent/agent.py: the account-plan section      *)
(* editor (update_markdown_section / update_account_plan), the year        *)
(* extraction utility (extract_years) and the research aggregator          *)
(* (fetch_wikipedia_summary, fetch_duckduckgo_summary, research_company).  *)
(*                                                                         *)
(* Text is a sequence of one-character strings.  Python values that can    *)
(* reach the code are records [t, s, n]: t is the Python type, s the       *)
(* characters of a str, n the value of an int.                             *)
(***************************************************************************)
EXTENDS Integers, Sequences, FiniteSets, TLC

VARIABLES
    pc,         \* which operation the caller is at
    plan,       \* the account plan threaded through update_account_plan
    lastDoc,    \* existing_plan_markdown of the most recent call
    lastName,   \* section_name of the most recent call
    lastBody,   \* new_section_body of the most recent call
    calls,      \* number of update_account_plan calls made so far
    repeated,   \* the most recent call repeated the arguments of the one before
    order,      \* section names in order of first use by a call
    latest,     \* section name -> new_section_body of the latest call for it
    company,    \* company_name given to research_company
    wikiResp,   \* what the Wikipedia request produces
    ddgResp,    \* what the DuckDuckGo request produces
    result,     \* what research_company returned (or that it raised)
    text,       \* argument of extract_years
    years       \* value extract_years returned

vars == << pc, plan, lastDoc, lastName, lastBody, calls, repeated, order, latest,
           company, wikiResp, ddgResp, result, text, years >>

(***************************************************************************)
(* Bounds of the model.                                                    *)
(***************************************************************************)
MaxCalls == 3
MaxTokens == 4

(***************************************************************************)
(* Characters and character classes of Python's str and re (ASCII part).   *)
(***************************************************************************)
UpperSeq == << "A","B","C","D","E","F","G","H","I","J","K","L","M",
               "N","O","P","Q","R","S","T","U","V","W","X","Y","Z" >>
LowerSeq == << "a","b","c","d","e","f","g","h","i","j","k","l","m",
               "n","o","p","q","r","s","t","u","v","w","x","y","z" >>
DigitSeq == << "0","1","2","3","4","5","6","7","8","9" >>

Range(f) == { f[i] : i \in DOMAIN f }

\* \s of re, and the characters str.strip() removes: space, \n, \t, \r, form
\* feed, vertical tab (0x0b) and the separators 0x1c to 0x1f
FormFeed == "\f"
VerticalTab == ""
FileSep == ""
GroupSep == ""
RecordSep == ""
UnitSep == ""
Whitespace ==
    { " ", "\n", "\t", "\r", FormFeed, VerticalTab, FileSep, GroupSep, RecordSep, UnitSep }
\* \d of re
Digits == Range(DigitSeq)
\* \w of re: what \b tells apart from the rest
WordChars == Range(UpperSeq) \cup Range(LowerSeq) \cup Digits \cup { "_" }

\* int() of one digit
DigitValue(c) == (CHOOSE i \in DOMAIN DigitSeq : DigitSeq[i] = c) - 1

\* str.lower() on one character
LowerChar(c) ==
    IF c \in Range(UpperSeq)
    THEN LowerSeq[CHOOSE i \in DOMAIN UpperSeq : UpperSeq[i] = c]
    ELSE c

\* str.lower()
Lower(s) == [ i \in DOMAIN s |-> LowerChar(s[i]) ]

RECURSIVE LStrip(_)
LStrip(s) ==
    IF s # << >> /\ Head(s) \in Whitespace THEN LStrip(Tail(s)) ELSE s

RECURSIVE RStrip(_)
RStrip(s) ==
    IF s # << >> /\ s[Len(s)] \in Whitespace
    THEN RStrip(SubSeq(s, 1, Len(s) - 1))
    ELSE s

\* str.strip()
Strip(s) == RStrip(LStrip(s))

\* s[i-1:] starts with pat (positions are 1-based)
StartsWithAt(s, i, pat) ==
    /\ i >= 1
    /\ i + Len(pat) - 1 <= Len(s)
    /\ SubSeq(s, i, i + Len(pat) - 1) = pat

\* length of the longest run of \s characters starting at position i
RECURSIVE SpaceRun(_, _)
SpaceRun(s, i) ==
    IF i <= Len(s) /\ s[i] \in Whitespace THEN 1 + SpaceRun(s, i + 1) ELSE 0

SetMax(S) == CHOOSE x \in S : \A y \in S : y <= x
SetMin(S) == CHOOSE x \in S : \A y \in S : x <= y

(***************************************************************************)
(* update_markdown_section: the search of                                  *)
(*   (##\s+NAME\s*\n)(.*?)(?=\n##\s+|\Z)   with re.DOTALL                  *)
(* NAME is re.escape(section_name), which matches section_name literally.  *)
(***************************************************************************)
HeadingPrefix == << "#", "#", " " >>

\* position of the "\n" that ends \s*\n when it is tried at position j
\* (\s* is greedy: the last "\n" of the whitespace run), 0 when it fails
TrailEnd(doc, j) ==
    LET r   == SpaceRun(doc, j)
        nls == { p \in j .. (j + r - 1) : doc[p] = "\n" }
    IN  IF nls = {} THEN 0 ELSE SetMax(nls)

\* position of the last character of group 1 when the pattern is tried at
\* position i, 0 when group 1 does not match there.  What follows group 1
\* always matches (.*? can run to \Z), so the first alternative of the
\* greedy \s+ for which group 1 matches is the one re takes.
HeadingEnd(doc, i, name) ==
    IF ~StartsWithAt(doc, i, << "#", "#" >>)
    THEN 0
    ELSE LET ks == { k \in 1 .. SpaceRun(doc, i + 2) :
                       /\ StartsWithAt(doc, i + 2 + k, name)
                       /\ TrailEnd(doc, i + 2 + k + Len(name)) # 0 }
         IN  IF ks = {} THEN 0
             ELSE TrailEnd(doc, i + 2 + SetMax(ks) + Len(name))

\* re.search: the leftmost position where the pattern matches, 0 for None
MatchStart(doc, name) ==
    LET hits == { i \in 1 .. Len(doc) : HeadingEnd(doc, i, name) # 0 }
    IN  IF hits = {} THEN 0 ELSE SetMin(hits)

\* the lookahead (?=\n##\s+|\Z) at position e
LookaheadAt(doc, e) ==
    \/ e = Len(doc) + 1
    \/ /\ StartsWithAt(doc, e, << "\n", "#", "#" >>)
       /\ SpaceRun(doc, e + 3) >= 1

\* match.span(2) as 1-based positions: group 2 is doc[start .. end-1];
\* .*? is lazy, so it ends at the first position where the lookahead holds
Span2Start(doc, name) == HeadingEnd(doc, MatchStart(doc, name), name) + 1
Span2End(doc, name) ==
    SetMin({ e \in Span2Start(doc, name) .. (Len(doc) + 1) : LookaheadAt(doc, e) })

\* f"## {section_name}\n{new_section_body.strip()}\n"
FreshSection(name, body) ==
    HeadingPrefix \o name \o << "\n" >> \o Strip(body) \o << "\n" >>

\* the branch taken when re.search found the heading
ReplaceBody(doc, name, body) ==
    LET start == Span2Start(doc, name)
        end   == Span2End(doc, name)
    IN  SubSeq(doc, 1, start - 1)
          \o << "\n" >> \o Strip(body) \o << "\n" >>
          \o SubSeq(doc, end, Len(doc))

\* the branch taken when re.search found nothing
AppendSection(doc, name, body) ==
    LET ended == IF doc[Len(doc)] # "\n" THEN doc \o << "\n" >> ELSE doc
    IN  ended \o << "\n" >> \o FreshSection(name, body)

update_markdown_section(existing_plan, section_name, new_section_body) ==
    IF existing_plan = << >>
    THEN FreshSection(section_name, new_section_body)
    ELSE IF MatchStart(existing_plan, section_name) # 0
         THEN ReplaceBody(existing_plan, section_name, new_section_body)
         ELSE AppendSection(existing_plan, section_name, new_section_body)

\* the tool: a plain delegation
update_account_plan(existing_plan_markdown, section_name, new_section_body) ==
    update_markdown_section(existing_plan_markdown, section_name, new_section_body)

(***************************************************************************)
(* The inputs of the editor: section names, bodies and the documents a     *)
(* conversation can hand to update_account_plan.                           *)
(***************************************************************************)
Overview == << "O", "v", "e", "r", "v", "i", "e", "w" >>
Risks == << "R", "i", "s", "k", "s" >>
RisksLower == << "r", "i", "s", "k", "s" >>
Notes == << "N", "o", "t", "e", "s" >>

\* the section names the calls use
Names == { Overview, Risks, RisksLower }

NewRiskText == << "N", "e", "w", " ", "r", "i", "s", "k", " ", "t", "e", "x", "t" >>
HelloPadded == << " ", " ", "h", "e", "l", "l", "o", " ", " ", "\n" >>
\* a body padded with form feed, vertical tab and a separator
ControlPadded == << FormFeed, VerticalTab, "n", "e", "w", FileSep >>
\* the bodies the calls use: empty, plain, padded with whitespace
Bodies == { << >>, NewRiskText, HelloPadded, ControlPadded }

\* the names and bodies of the sections of an existing plan
SectionNames == { Overview, Risks, Notes }
OldBody(n) ==
    IF n = Overview THEN << "O", "l", "d", " ", "t", "e", "x", "t", "\n" >>
    ELSE IF n = Risks THEN << "O", "l", "d", " ", "r", "i", "s", "k", "\n" >>
    ELSE << "O", "l", "d", " ", "n", "o", "t", "e", "\n" >>

\* one section of an existing plan; its body may be empty
SectionText(n, full) ==
    HeadingPrefix \o n \o << "\n" >> \o (IF full THEN OldBody(n) ELSE << >>)

RECURSIVE PlanOf(_, _)
PlanOf(ns, full) ==
    IF ns = << >> THEN << >>
    ELSE SectionText(Head(ns), Head(full)) \o PlanOf(Tail(ns), Tail(full))

\* plans made of one to three distinct level-2 sections
SectionedPlans ==
    UNION { { PlanOf(ns, full) :
                ns \in { q \in [1 .. k -> SectionNames] :
                           \A i, j \in 1 .. k : i # j => q[i] # q[j] },
                full \in [1 .. k -> BOOLEAN] } : k \in 1 .. 3 }

\* "## Overview\nOld text\n## Risks\nOld risk\n"
ScenarioPlan == PlanOf(<< Overview, Risks >>, << TRUE, TRUE >>)
\* a plan that does not end with a newline
UnterminatedPlan == << "#", "#", " ", "O", "v", "e", "r", "v", "i", "e", "w", "\n", "O", "l", "d", " ", "t", "e", "x", "t" >>
\* a level-3 heading carrying the name
DeeperPlan == << "#" >> \o PlanOf(<< Risks >>, << TRUE >>)
\* the heading marker and the name in the middle of a line of body text
MidLinePlan == PlanOf(<< Overview >>, << FALSE >>) \o << "s", "e", "e", " " >> \o PlanOf(<< Risks >>, << TRUE >>)
\* a heading that differs from the name in letter case only
LowerCasePlan == HeadingPrefix \o RisksLower \o << "\n" >> \o OldBody(Risks)
\* sections separated by blank lines
SpacedPlan == << "#", "#", " ", "O", "v", "e", "r", "v", "i", "e", "w", "\n", "\n", "O", "l", "d", " ", "t", "e", "x", "t", "\n", "\n", "#", "#", " ", "R", "i", "s", "k", "s", "\n", "\n", "O", "l", "d", " ", "r", "i", "s", "k", "\n" >>

\* a heading line with a form feed after the name
FormFeedPlan ==
    HeadingPrefix \o Risks \o << FormFeed, "\n" >> \o OldBody(Risks)

InitialPlans ==
    SectionedPlans \cup
    { << >>, UnterminatedPlan, DeeperPlan, MidLinePlan, LowerCasePlan, SpacedPlan,
      FormFeedPlan }

(***************************************************************************)
(* The caller threads the plan through update_account_plan.                *)
(***************************************************************************)
NoValue == [ t |-> "none", s |-> << >>, n |-> 0 ]
IdleResponse == [ kind |-> "idle" ]

EditorIdle ==
    /\ plan = << >>
    /\ lastDoc = << >>
    /\ lastName = << >>
    /\ lastBody = << >>
    /\ calls = 0
    /\ repeated = FALSE
    /\ order = << >>
    /\ latest = [ n \in Names |-> << >> ]

ResearchIdle ==
    /\ company = << >>
    /\ wikiResp = IdleResponse
    /\ ddgResp = IdleResponse
    /\ result = IdleResponse

YearsIdle ==
    /\ text = NoValue
    /\ years = << >>

Init ==
    /\ pc = "edit"
    /\ plan \in InitialPlans
    /\ lastDoc = << >>
    /\ lastName = << >>
    /\ lastBody = << >>
    /\ calls = 0
    /\ repeated = FALSE
    /\ order = << >>
    /\ latest = [ n \in Names |-> << >> ]
    /\ ResearchIdle
    /\ YearsIdle

\* the conversation starts from the empty plan
InitPlan ==
    /\ pc = "edit"
    /\ EditorIdle
    /\ ResearchIdle
    /\ YearsIdle

UpdateAccountPlan(name, body) ==
    /\ pc = "edit"
    /\ calls < MaxCalls
    /\ plan' = update_account_plan(plan, name, body)
    /\ lastDoc' = plan
    /\ lastName' = name
    /\ lastBody' = body
    /\ calls' = calls + 1
    /\ repeated' = (calls > 0 /\ name = lastName /\ body = lastBody)
    /\ order' = IF name \in Range(order) THEN order ELSE Append(order, name)
    /\ latest' = [ latest EXCEPT ![name] = body ]
    /\ UNCHANGED << pc, company, wikiResp, ddgResp, result, text, years >>

Next == \E name \in Names, body \in Bodies : UpdateAccountPlan(name, body)

Spec == Init /\ [][Next]_vars

SpecPlan == InitPlan /\ [][Next]_vars

(***************************************************************************)
(* The document as the data model describes it: lines, level-2 heading     *)
(* lines, and the sections they delimit.  Used to state the properties of  *)
(* the editor; the editor itself never parses the document this way.       *)
(***************************************************************************)
RECURSIVE FirstNewline(_, _)
FirstNewline(s, i) ==
    IF i > Len(s) THEN 0
    ELSE IF s[i] = "\n" THEN i
    ELSE FirstNewline(s, i + 1)

\* the lines of a text, each with its newline
RECURSIVE SplitLines(_)
SplitLines(s) ==
    IF s = << >> THEN << >>
    ELSE LET n == FirstNewline(s, 1)
         IN  IF n = 0 THEN << s >>
             ELSE << SubSeq(s, 1, n) >> \o SplitLines(SubSeq(s, n + 1, Len(s)))

RECURSIVE JoinLines(_)
JoinLines(ls) == IF ls = << >> THEN << >> ELSE Head(ls) \o JoinLines(Tail(ls))

\* a level-2 heading line: the marker "##", one space, the label
IsHeadingLine(l) == StartsWithAt(l, 1, HeadingPrefix)
HeadingLabel(l) == Strip(SubSeq(l, 4, Len(l)))

\* the sections of a document in order: heading line, label, and the body
\* without the blank lines around it (whitespace around a body is not
\* significant in the data model)
RECURSIVE SectionsFrom(_, _)
SectionsFrom(ls, acc) ==
    IF ls = << >> THEN acc
    ELSE IF IsHeadingLine(Head(ls))
         THEN SectionsFrom(Tail(ls),
                  Append(acc, [ heading |-> Head(ls),
                                name |-> HeadingLabel(Head(ls)),
                                body |-> << >> ]))
         ELSE IF acc = << >> THEN SectionsFrom(Tail(ls), acc)
         ELSE SectionsFrom(Tail(ls),
                  [ acc EXCEPT ![Len(acc)].body = @ \o Head(ls) ])

SectionsOf(doc) ==
    LET raw == SectionsFrom(SplitLines(doc), << >>)
    IN  [ i \in DOMAIN raw |-> [ raw[i] EXCEPT !.body = Strip(@) ] ]

RECURSIVE SectionsOtherThan(_, _)
SectionsOtherThan(secs, name) ==
    IF secs = << >> THEN << >>
    ELSE IF Head(secs).name = name THEN SectionsOtherThan(Tail(secs), name)
    ELSE << Head(secs) >> \o SectionsOtherThan(Tail(secs), name)

\* the document has a level-2 heading line labelled name
HasSection(doc, name) ==
    \E i \in DOMAIN SectionsOf(doc) : SectionsOf(doc)[i].name = name

\* a document made of level-2 sections only: it starts with a heading line
\* and the marker character appears in heading lines only
MadeOfSections(doc) ==
    LET ls == SplitLines(doc)
    IN  /\ ls # << >>
        /\ IsHeadingLine(ls[1])
        /\ \A i \in DOMAIN ls :
              IsHeadingLine(ls[i]) \/ "#" \notin Range(ls[i])

\* the result the replace contract describes: the text up to and including
\* the target's heading line, the trimmed body and one newline, the text
\* from the next level-2 heading line onward
ContractReplace(doc, name, body) ==
    LET ls     == SplitLines(doc)
        target == SetMin({ i \in DOMAIN ls :
                             IsHeadingLine(ls[i]) /\ HeadingLabel(ls[i]) = name })
        later  == { i \in DOMAIN ls : i > target /\ IsHeadingLine(ls[i]) }
        rest   == IF later = {} THEN << >>
                  ELSE SubSeq(ls, SetMin(later), Len(ls))
    IN  JoinLines(SubSeq(ls, 1, target)) \o Strip(body) \o << "\n" >>
          \o JoinLines(rest)

\* the result the append contract describes
ContractAppend(doc, name, body) ==
    (IF doc[Len(doc)] = "\n" THEN doc ELSE doc \o << "\n" >>)
      \o HeadingPrefix \o name \o << "\n" >> \o Strip(body) \o << "\n" >>

Called == pc = "edit" /\ calls > 0

(***************************************************************************)
(* Properties of the editor.                                               *)
(***************************************************************************)

\* C1: idempotence: a call that repeats the section name and body of the
\* call before it returns the document it was given.
C1_Idempotent == (Called /\ repeated) => plan = lastDoc

\* C2: non-interference: for a non-empty document made of level-2 sections,
\* the sections other than the target are in the result with the same
\* heading and body and in the same order, and the target is in the result.
C2_NonInterference ==
    (Called /\ lastDoc # << >> /\ MadeOfSections(lastDoc)) =>
        /\ SectionsOtherThan(SectionsOf(plan), lastName)
             = SectionsOtherThan(SectionsOf(lastDoc), lastName)
        /\ HasSection(plan, lastName)

\* C3: when the target section exists, the result is the text up to and
\* including its heading line, the trimmed body and one newline, then the
\* text from the next level-2 heading line onward.
C3_ReplaceExact ==
    (Called /\ HasSection(lastDoc, lastName)) =>
        plan = ContractReplace(lastDoc, lastName, lastBody)

\* C8: when the non-empty document has no level-2 heading line labelled
\* exactly sectionName, the call appends: the existing text is an untouched
\* prefix of the result and the new section follows it.
C8_LocatesHeadingLinesOnly ==
    (Called /\ lastDoc # << >> /\ ~HasSection(lastDoc, lastName)) =>
        /\ StartsWithAt(plan, 1, lastDoc)
        /\ StartsWithAt(plan,
                        Len(plan) - Len(FreshSection(lastName, lastBody)) + 1,
                        FreshSection(lastName, lastBody))

\* C9: append path: when the non-empty document has no section named
\* sectionName, the result is the document, one newline if it did not end
\* with one, the heading line, the trimmed body and one newline, and
\* nothing else.
C9_AppendExact ==
    (Called /\ lastDoc # << >> /\ ~HasSection(lastDoc, lastName)) =>
        plan = ContractAppend(lastDoc, lastName, lastBody)

\* C10: starting from the empty document, every reachable document has
\* exactly one heading line per section name used so far, in order of first
\* use, and each section's body is the trimmed body of the latest call for
\* that name.
C10_PlanTracksCalls ==
    pc = "edit" =>
        LET secs == SectionsOf(plan)
        IN  /\ [ i \in DOMAIN secs |-> secs[i].name ] = order
            /\ \A i \in DOMAIN secs :
                  secs[i].name \in Names =>
                      secs[i].body = Strip(latest[secs[i].name])

(***************************************************************************)
(* Python values.                                                          *)
(***************************************************************************)
PyStr(s) == [ t |-> "str", s |-> s, n |-> 0 ]
PyInt(n) == [ t |-> "int", s |-> << >>, n |-> n ]
\* a list of n elements
PyList(n) == [ t |-> "list", s |-> << >>, n |-> n ]
None == NoValue
\* the key is absent from the JSON object: dict.get returns its default
Missing == [ t |-> "missing", s |-> << >>, n |-> 0 ]

\* bool(v)
Truthy(v) ==
    CASE v.t = "str" -> v.s # << >>
      [] v.t \in { "int", "list" } -> v.n # 0
      [] OTHER -> FALSE

\* v or ""
OrEmpty(v) == IF Truthy(v) THEN v ELSE PyStr(<< >>)

\* data.get(key, "")
GetOrEmpty(v) == IF v.t = "missing" THEN PyStr(<< >>) ELSE v

(***************************************************************************)
(* extract_years: sorted({int(y) for y in re.findall(pattern, text or "")})*)
(* with pattern \b(19\d{2}|20\d{2})\b                                      *)
(***************************************************************************)
IsWordAt(s, i) == i >= 1 /\ i <= Len(s) /\ s[i] \in WordChars

\* \b between positions i-1 and i
WordBoundary(s, i) == IsWordAt(s, i - 1) # IsWordAt(s, i)

\* the pattern with its leading \b left out: a year is accepted whatever
\* precedes it
YearAtNoLeadingBoundary(s, i) ==
    /\ i + 3 <= Len(s)
    /\ SubSeq(s, i, i + 1) \in { << "1", "9" >>, << "2", "0" >> }
    /\ s[i + 2] \in Digits
    /\ s[i + 3] \in Digits
    /\ WordBoundary(s, i + 4)

\* the pattern matches at position i
YearAt(s, i) ==
    /\ i + 3 <= Len(s)
    /\ WordBoundary(s, i)
    /\ SubSeq(s, i, i + 1) \in { << "1", "9" >>, << "2", "0" >> }
    /\ s[i + 2] \in Digits
    /\ s[i + 3] \in Digits
    /\ WordBoundary(s, i + 4)

\* re.findall: the matches from left to right, each search resuming where
\* the previous match ended
RECURSIVE FindAll(_, _)
FindAll(s, i) ==
    IF i > Len(s) THEN << >>
    ELSE IF YearAt(s, i) THEN << SubSeq(s, i, i + 3) >> \o FindAll(s, i + 4)
    ELSE FindAll(s, i + 1)

\* int(y) for a string of digits
RECURSIVE IntOf(_)
IntOf(s) ==
    IF s = << >> THEN 0
    ELSE 10 * IntOf(SubSeq(s, 1, Len(s) - 1)) + DigitValue(s[Len(s)])

\* sorted(S) for a set of integers
RECURSIVE SortedSeq(_)
SortedSeq(S) ==
    IF S = {} THEN << >>
    ELSE << SetMin(S) >> \o SortedSeq(S \ { SetMin(S) })

\* re.findall raises TypeError unless text or "" is a str
ExtractRaises(v) == OrEmpty(v).t # "str"

extract_years(v) ==
    SortedSeq({ IntOf(y) : y \in Range(FindAll(OrEmpty(v).s, 1)) })

\* the texts given to extract_years: up to MaxTokens tokens, each a year,
\* a digit, a letter, a space or an underscore
YearTokens ==
    { << "1", "9", "7", "5" >>, << "2", "0", "2", "4" >>, << "2", "0", "9", "9" >>,
      << "1" >>, << "9" >>, << "s" >>, << " " >>, << "_" >> }

TokenTexts ==
    UNION { { JoinLines(q) : q \in [1 .. k -> YearTokens] } : k \in 0 .. MaxTokens }

InitYears ==
    /\ pc = "extract"
    /\ text \in { PyStr(t) : t \in TokenTexts } \cup { None }
    /\ years = << >>
    /\ EditorIdle
    /\ ResearchIdle

ExtractYears ==
    /\ pc = "extract"
    /\ ~ExtractRaises(text)
    /\ years' = extract_years(text)
    /\ pc' = "extracted"
    /\ UNCHANGED << plan, lastDoc, lastName, lastBody, calls, repeated, order,
                    latest, company, wikiResp, ddgResp, result, text >>

NextYears == ExtractYears

SpecYears == InitYears /\ [][NextYears]_vars

\* the years of all four-character runs "19dd" or "20dd" that have no
\* character of the class apart on either side
RunYears(s, apart) ==
    { IntOf(SubSeq(s, i, i + 3)) :
        i \in { j \in 1 .. (Len(s) - 3) :
                  /\ SubSeq(s, j, j + 1) \in { << "1", "9" >>, << "2", "0" >> }
                  /\ s[j + 2] \in Digits
                  /\ s[j + 3] \in Digits
                  /\ (j = 1 \/ s[j - 1] \notin apart)
                  /\ (j + 4 > Len(s) \/ s[j + 4] \notin apart) } }

Ascending(q) == \A i, j \in DOMAIN q : i < j => q[i] < q[j]

\* C7 as claimed: the result is the ascending duplicate-free list of the
\* values in 1900..2099 of the four-digit runs beginning with "19" or "20"
\* that are not part of a longer digit run; empty or null input gives the
\* empty list.
C7_DigitRunYears ==
    pc = "extracted" =>
        /\ Ascending(years)
        /\ Range(years) = RunYears(text.s, Digits)

\* C7 amended: the result is the ascending duplicate-free list of the
\* values in 1900..2099 of the four-digit runs beginning with "19" or "20"
\* that are not adjacent to a word character (letter, digit or
\* underscore); empty or null input gives the empty list.
C7_WholeWordYears ==
    pc = "extracted" =>
        /\ Ascending(years)
        /\ Range(years) = RunYears(text.s, WordChars)
        /\ \A i \in DOMAIN years : years[i] \in 1900 .. 2099
        /\ (text.t = "none" \/ text.s = << >>) => years = << >>

\* C7 witness: a text whose first year is later than its second gave the
\* two years in ascending order.
C7_Witness ==
    /\ pc = "extracted"
    /\ Len(years) = 2
    /\ Len(FindAll(text.s, 1)) = 2
    /\ IntOf(FindAll(text.s, 1)[1]) = years[2]
    /\ years[1] < years[2]

(***************************************************************************)
(* The two summary sources.  A response is what requests.get produced:     *)
(* kind "error" when it raised (transport error, timeout), else an HTTP    *)
(* response with a status and a body that is not JSON, JSON that is not    *)
(* an object, or a JSON object with the fields the code reads.             *)
(***************************************************************************)
HttpOk == 200

\* resp.json() raised, or data.get raised on a value that is not a dict
BodyUnusable(resp) == resp.body \in { "notjson", "nonobject" }

fetch_wikipedia_summary(resp) ==
    IF resp.kind = "error" THEN PyStr(<< >>)
    ELSE IF resp.status # HttpOk THEN PyStr(<< >>)
    ELSE IF BodyUnusable(resp) THEN PyStr(<< >>)
    ELSE OrEmpty(GetOrEmpty(resp.extract))

fetch_duckduckgo_summary(resp) ==
    IF resp.kind = "error" THEN PyStr(<< >>)
    ELSE IF resp.status # HttpOk THEN PyStr(<< >>)
    ELSE IF BodyUnusable(resp) THEN PyStr(<< >>)
    ELSE IF Truthy(GetOrEmpty(resp.abstract)) THEN GetOrEmpty(resp.abstract)
    ELSE IF resp.related = "firstdict" THEN OrEmpty(GetOrEmpty(resp.text))
    ELSE PyStr(<< >>)

(***************************************************************************)
(* research_company                                                        *)
(***************************************************************************)
IBM == << "I", "B", "M" >>
Sony == << "S", "o", "n", "y" >>
Nokia == << "N", "o", "k", "i", "a" >>
Panasonic == << "P", "a", "n", "a", "s", "o", "n", "i", "c" >>
Accenture == << "A", "c", "c", "e", "n", "t", "u", "r", "e" >>

\* the dict synthetic_conflicts in insertion order
synthetic_conflicts ==
    << [ key |-> IBM,       years |-> << 1896, 1911, 1924 >> ],
       [ key |-> Sony,      years |-> << 1945, 1946, 1958 >> ],
       [ key |-> Nokia,     years |-> << 1865, 1871, 1876 >> ],
       [ key |-> Panasonic, years |-> << 1918, 1927, 1935 >> ],
       [ key |-> Accenture, years |-> << 1950, 1989, 2001 >> ] >>

\* a conflict as soon as one year was found
HasConflictFromOne(years_list) == Len(years_list) > 0

\* has_conflict = len(years_list) > 1
HasConflict(years_list) == Len(years_list) > 1

\* no external data as soon as the first source is blank
NoExternalWikiOnly(wiki, ddg) == Strip(wiki) = << >>

\* no_external = (wiki.strip() == "") and (ddg.strip() == "")
NoExternal(wiki, ddg) == Strip(wiki) = << >> /\ Strip(ddg) = << >>

\* the entries the loop over synthetic_conflicts stops at
FallbackHits(company_name) ==
    { i \in DOMAIN synthetic_conflicts :
        Lower(synthetic_conflicts[i].key) = Lower(Strip(company_name)) }

research_company(company_name, wresp, dresp) ==
    LET wiki == fetch_wikipedia_summary(wresp)
        ddg  == fetch_duckduckgo_summary(dresp)
    IN  IF ExtractRaises(wiki) \/ ExtractRaises(ddg)
        THEN [ kind |-> "raised" ]
        ELSE LET years_list  == SortedSeq(Range(extract_years(wiki))
                                            \cup Range(extract_years(ddg)))
                 no_external == NoExternal(wiki.s, ddg.s)
                 hits        == FallbackHits(company_name)
                 fallback    == no_external /\ hits # {}
             IN  [ kind |-> "returned",
                   company |-> company_name,
                   wikipedia_summary |-> wiki.s,
                   duckduckgo_summary |-> ddg.s,
                   extracted_years |->
                       IF fallback THEN synthetic_conflicts[SetMin(hits)].years
                       ELSE years_list,
                   has_conflict |->
                       IF fallback THEN TRUE ELSE HasConflict(years_list),
                   no_external_data |-> no_external ]

\* the company names asked about
Companies ==
    { IBM, << " ", "i", "b", "m", "\n" >>, Sony, << "n", "o", "k", "i", "a" >>, << "P", "A", "N", "A", "S", "O", "N", "I", "C" >>, << "A", "c", "c", "e", "n", "t", "u", "r", "e", " " >>, << "A", "c", "m", "e" >> }

\* the values a summary field of a JSON object can hold
SummaryValues ==
    { Missing, None, PyStr(<< >>), PyStr(<< FormFeed >>),
      PyStr(<< VerticalTab, GroupSep, RecordSep, UnitSep >>),
      PyStr(<< " ", "\n" >>),
      PyStr(<< "e", "s", "t", " ", "1", "9", "1", "1" >>), PyStr(<< "1", "9", "1", "1", " ", "o", "r", " ", "1", "9", "2", "4" >>), PyStr(<< "n", "o", " ", "y", "e", "a", "r" >>),
      PyInt(0), PyInt(7), PyList(1) }

WikiResponses ==
    { [ kind |-> "error", status |-> 0, body |-> "none", extract |-> Missing ] }
    \cup { [ kind |-> "http", status |-> 404, body |-> "object",
             extract |-> PyStr(<< "e", "s", "t", " ", "1", "9", "1", "1" >>) ] }
    \cup { [ kind |-> "http", status |-> HttpOk, body |-> b, extract |-> Missing ] :
             b \in { "notjson", "nonobject" } }
    \cup { [ kind |-> "http", status |-> HttpOk, body |-> "object", extract |-> v ] :
             v \in SummaryValues }

DdgResponses ==
    { [ kind |-> "error", status |-> 0, body |-> "none", abstract |-> Missing,
        related |-> "missing", text |-> Missing ] }
    \cup { [ kind |-> "http", status |-> 404, body |-> "object",
             abstract |-> PyStr(<< "e", "s", "t", " ", "1", "9", "1", "1" >>), related |-> "missing", text |-> Missing ] }
    \cup { [ kind |-> "http", status |-> HttpOk, body |-> b, abstract |-> Missing,
             related |-> "missing", text |-> Missing ] :
             b \in { "notjson", "nonobject" } }
    \cup { [ kind |-> "http", status |-> HttpOk, body |-> "object", abstract |-> v,
             related |-> "missing", text |-> Missing ] : v \in SummaryValues }
    \cup { [ kind |-> "http", status |-> HttpOk, body |-> "object", abstract |-> a,
             related |-> r, text |-> v ] :
             a \in { Missing, PyStr(<< >>) },
             r \in { "empty", "notlist", "firstnotdict", "firstdict" },
             v \in { Missing, None, PyStr(<< "i", "n", " ", "1", "8", "9", "6" >>), PyInt(7) } }

InitResearch ==
    /\ pc = "research"
    /\ company \in Companies
    /\ wikiResp \in WikiResponses
    /\ ddgResp \in DdgResponses
    /\ result = IdleResponse
    /\ EditorIdle
    /\ YearsIdle

ResearchCompany ==
    /\ pc = "research"
    /\ result' = research_company(company, wikiResp, ddgResp)
    /\ pc' = "researched"
    /\ UNCHANGED << plan, lastDoc, lastName, lastBody, calls, repeated, order,
                    latest, company, wikiResp, ddgResp, text, years >>

NextResearch == ResearchCompany

SpecResearch == InitResearch /\ [][NextResearch]_vars

(***************************************************************************)
(* Properties of the aggregator.                                           *)
(***************************************************************************)
Returned == pc = "researched" /\ result.kind = "returned"

\* what year extraction alone gives for the two summaries of a result
YearsOfSummaries(r) ==
    SortedSeq(Range(extract_years(PyStr(r.wikipedia_summary)))
                \cup Range(extract_years(PyStr(r.duckduckgo_summary))))

\* the fallback table left the result alone
FallbackKeptOut(r) ==
    /\ r.extracted_years = YearsOfSummaries(r)
    /\ r.has_conflict = (Len(YearsOfSummaries(r)) >= 2)

HasNonBlank(s) == \E i \in DOMAIN s : s[i] \notin Whitespace

\* C4 as claimed: if at least one source summary is a non-empty string
\* (whitespace-only included), the fallback table never overrides
\* extracted_years or forces has_conflict, whatever the company name.
C4_FallbackIsolation ==
    (Returned /\ (result.wikipedia_summary # << >>
                    \/ result.duckduckgo_summary # << >>)) =>
        FallbackKeptOut(result)

\* C4 amended: if at least one source summary contains a character that is
\* not whitespace, the fallback table never overrides extracted_years or
\* forces has_conflict, whatever the company name.
C4_NonBlankIsolation ==
    (Returned /\ (HasNonBlank(result.wikipedia_summary)
                    \/ HasNonBlank(result.duckduckgo_summary))) =>
        /\ FallbackKeptOut(result)
        /\ ~result.no_external_data

\* C4 witness: an allowlisted company, one summary blank and the other with
\* text but no year: the result has no years and no conflict.
C4_Witness ==
    /\ Returned
    /\ FallbackHits(company) # {}
    /\ result.wikipedia_summary = << >>
    /\ HasNonBlank(result.duckduckgo_summary)
    /\ result.extracted_years = << >>
    /\ ~result.has_conflict

\* the source gave nothing usable: the request raised, the status is not
\* 200, the body is not a JSON object, or the summary field is not a string
WikiFails(resp) ==
    \/ resp.kind = "error"
    \/ resp.status # HttpOk
    \/ resp.body # "object"
    \/ resp.extract.t # "str"

DdgFails(resp) ==
    \/ resp.kind = "error"
    \/ resp.status # HttpOk
    \/ resp.body # "object"
    \/ resp.abstract.t \notin { "str", "missing" }
    \/ /\ ~Truthy(GetOrEmpty(resp.abstract))
       /\ (resp.related # "firstdict" \/ resp.text.t # "str")

\* C5: whatever the two sources produce, research_company returns a
\* complete result, and a failing or malformed source contributes the
\* empty string.
C5_FailSoft ==
    pc = "researched" =>
        /\ result.kind = "returned"
        /\ WikiFails(wikiResp) => result.wikipedia_summary = << >>
        /\ DdgFails(ddgResp) => result.duckduckgo_summary = << >>

\* C6: in every result returned, has_conflict is true exactly when
\* extracted_years holds at least two distinct years.
C6_ConflictIffTwoYears ==
    Returned =>
        (result.has_conflict <=> Cardinality(Range(result.extracted_years)) >= 2)

\* C6 witness: the fallback path was taken for an allowlisted company and
\* the result carries the conflict flag.
C6_Witness ==
    /\ Returned
    /\ result.no_external_data
    /\ FallbackHits(company) # {}
    /\ result.has_conflict
    /\ Len(result.extracted_years) = 3

====
